---- MODULE Spec2Model ----
(***************************************************************************)
(* Model of src/src/app.jsx: the CVE enricher page.                        *)
(*                                                                         *)
(* The file holds two builds of the page one after the other; the later    *)
(* one (lines 424-807) is the one modelled, and the earlier normalizeRows  *)
(* (lines 6-13) is modelled beside the later one.                          *)
(*                                                                         *)
(* Text is a sequence of symbols.  A symbol is either a separator          *)
(* character (" ", "\t", "\r", "\n", ",") or a token: a run of characters  *)
(* holding no whitespace and no comma, such as a whole CVE identifier or a *)
(* column name.  split and trim only look at separator characters, so they *)
(* are modelled exactly on such sequences.                                 *)
(***************************************************************************)
EXTENDS Integers, Sequences, FiniteSets, TLC

(* ------------------------------ bounds ------------------------------- *)

\* Longest record collection handed to normalizeRows in NormSpec.
MaxRows == 2

\* Number of handler invocations (enrich clicks and CSV uploads) in Spec.
MaxInv == 2

\* Longest CSV text, in symbols, handed to parseCSV in CsvSpec.
MaxCsv == 6

\* Number of clicks on "Export Excel" in ExportSpec.
MaxExp == 3

(* ------------------------- JavaScript values -------------------------- *)

\* A property that is not there reads as undefined.
UNDEF == "#undefined"

\* JSON null.
NULLV == "#null"

\* JavaScript truthiness of a field value (strings, undefined, null).
Truthy(v) == v \notin {UNDEF, NULLV, ""}

\* a || b
Or(a, b) == IF Truthy(a) THEN a ELSE b

Range(s) == {s[i] : i \in 1..Len(s)}

(* ------------------------- strings as symbols ------------------------- *)

\* The characters String.prototype.trim removes.
IsWS(c) == c \in {" ", "\t", "\r", "\n"}

RECURSIVE TrimLeft(_)
TrimLeft(s) ==
  IF s # <<>> /\ IsWS(Head(s)) THEN TrimLeft(Tail(s)) ELSE s

RECURSIVE TrimRight(_)
TrimRight(s) ==
  IF s # <<>> /\ IsWS(s[Len(s)]) THEN TrimRight(SubSeq(s, 1, Len(s) - 1)) ELSE s

\* s.trim()
Trim(s) == TrimRight(TrimLeft(s))

\* Index of the first "\n" of s, 0 when there is none.
RECURSIVE FirstIndex(_, _, _)
FirstIndex(s, c, i) ==
  IF i > Len(s) THEN 0
  ELSE IF s[i] = c THEN i
  ELSE FirstIndex(s, c, i + 1)

\* s.split(/\r?\n/): the separator is "\n" with the "\r" before it, if any.
RECURSIVE SplitLines(_)
SplitLines(s) ==
  LET n == FirstIndex(s, "\n", 1) IN
  IF n = 0 THEN <<s>>
  ELSE LET cut == IF n > 1 /\ s[n - 1] = "\r" THEN n - 2 ELSE n - 1
       IN  <<SubSeq(s, 1, cut)>> \o SplitLines(SubSeq(s, n + 1, Len(s)))

\* s.split(",")
RECURSIVE SplitComma(_)
SplitComma(s) ==
  LET n == FirstIndex(s, ",", 1) IN
  IF n = 0 THEN <<s>>
  ELSE <<SubSeq(s, 1, n - 1)>> \o SplitComma(SubSeq(s, n + 1, Len(s)))

\* arr.map(x => x.trim())
MapTrim(ss) == [i \in 1..Len(ss) |-> Trim(ss[i])]

\* arr.filter(Boolean) on strings: the empty string is dropped.
RECURSIVE FilterNonEmpty(_)
FilterNonEmpty(ss) ==
  IF ss = <<>> THEN <<>>
  ELSE IF Head(ss) = <<>> THEN FilterNonEmpty(Tail(ss))
  ELSE <<Head(ss)>> \o FilterNonEmpty(Tail(ss))

\* Array.from(arr): the Set left out, every occurrence kept.
Dedup_None(ss) == ss

\* Array.from(new Set(arr)): first occurrences, in insertion order.
RECURSIVE Dedup(_)
Dedup(ss) ==
  IF ss = <<>> THEN <<>>
  ELSE LET init == Dedup(SubSeq(ss, 1, Len(ss) - 1))
           last == ss[Len(ss)]
       IN  IF last \in Range(init) THEN init ELSE Append(init, last)

(* ----------------------------- normalizer ----------------------------- *)

\* The fields of an enrichment record the page reads or writes.
Fields ==
  {"CVE_ID", "AI_Brief", "Brief_Description", "Description_Short",
   "Remediation_Links", "Remediation_Steps", "Owner_Suggested"}

\* normalizeRow with the owner precedence the other way round: the record's own
\* owner first, the default only as a fallback.
normalizeRow_OwnerFallback(r, owner) ==
  [r EXCEPT
     !["Description_Short"] = Or(r["AI_Brief"], Or(r["Brief_Description"], "")),
     !["Remediation_Steps"] = Or(r["Remediation_Links"], ""),
     !["Owner_Suggested"]   = Or(r["Owner_Suggested"], Or(owner, ""))]

\* normalizeRow without the owner overlay: the default owner is never applied.
normalizeRow_NoOverlay(r, owner) ==
  [r EXCEPT
     !["Description_Short"] = Or(r["AI_Brief"], Or(r["Brief_Description"], "")),
     !["Remediation_Steps"] = Or(r["Remediation_Links"], ""),
     !["Owner_Suggested"]   = Or(r["Owner_Suggested"], "")]

\* Later build: the object literal of normalizeRows, lines 433-441.
normalizeRow(r, owner) ==
  [r EXCEPT
     !["Description_Short"] = Or(r["AI_Brief"], Or(r["Brief_Description"], "")),
     !["Remediation_Steps"] = Or(r["Remediation_Links"], ""),
     !["Owner_Suggested"]   = Or(owner, Or(r["Owner_Suggested"], ""))]

\* Earlier build: the object literal of normalizeRows, lines 7-12.
normalizeRowV1(r, owner) ==
  [r EXCEPT
     !["Description_Short"] = Or(r["Brief_Description"], Or(r["Description_Short"], "")),
     !["Remediation_Steps"] = Or(r["Remediation_Links"], Or(r["Remediation_Steps"], "")),
     !["Owner_Suggested"]   = Or(owner, Or(r["Owner_Suggested"], ""))]

NormalizeRecord(r, owner, ver) ==
  IF ver = 1 THEN normalizeRowV1(r, owner) ELSE normalizeRow(r, owner)

\* A heap is a sequence of objects; an address is an index into it and 0 is
\* null.  An array value is [t |-> "array", v |-> <<addresses>>]; the other
\* values a response may carry in its place keep only their tag.
ArrayOf(v) == [t |-> "array", v |-> v]
NonArray(t) == [t |-> t, v |-> <<>>]

\* rows || []
RowsOrEmpty(rows) ==
  IF rows.t \in {"undefined", "null"} THEN ArrayOf(<<>>) ELSE rows

\* The callback writing the three fields into r itself instead of a copy.
NewObject_InPlace(h, a) == a

\* ({ ...r, k: v }) is a new object: it gets the next free address.
NewObject(h, a) == Len(h) + 1

Store(h, a, rec) ==
  IF a > Len(h) THEN Append(h, rec) ELSE [h EXCEPT ![a] = rec]

\* Array.prototype.map with the callback of normalizeRows: left to right; the
\* callback throws a TypeError on a null element (r.AI_Brief of null).
RECURSIVE MapRows(_, _, _, _, _)
MapRows(h, items, owner, ver, acc) ==
  IF items = <<>> THEN [threw |-> FALSE, v |-> acc, heap |-> h]
  ELSE IF Head(items) = 0 THEN [threw |-> TRUE, v |-> <<>>, heap |-> h]
  ELSE LET a == Head(items)
           t == NewObject(h, a)
       IN  MapRows(Store(h, t, NormalizeRecord(h[a], owner, ver)),
                   Tail(items), owner, ver, Append(acc, t))

NormalizeRowsVer(h, rows, owner, ver) ==
  LET arr == RowsOrEmpty(rows) IN
  IF arr.t # "array"
  THEN [threw |-> TRUE, v |-> <<>>, heap |-> h]   \* .map is not a function
  ELSE MapRows(h, arr.v, owner, ver, <<>>)

\* normalizeRows(rows, owner) of the later build.
normalizeRows(h, rows, owner) == NormalizeRowsVer(h, rows, owner, 2)

\* normalizeRows(rows, owner) of the earlier build.
normalizeRowsV1(h, rows, owner) == NormalizeRowsVer(h, rows, owner, 1)

(* -------------------------------- state ------------------------------- *)

VARIABLES
  API,      \* whether import.meta.env.VITE_API_URL is set (fixed per build)
  text,     \* useState: the textarea's content
  owner,    \* useState: the default-owner field
  rows,     \* useState: the displayed result set, a sequence of records
  loading,  \* useState: the loading flag
  inv,      \* the invocations of enrich and onUploadCSV, by slot
  stale,    \* RaceSpec, history: the invocations whose request was out at a Clear
  nHeap0,   \* NormSpec: the objects before the call of normalizeRows
  nHeap,    \* NormSpec: the objects now
  nRows,    \* NormSpec: the first argument of normalizeRows
  nOwner,   \* NormSpec: the second argument of normalizeRows
  nRes,     \* NormSpec: what the call did
  cText,    \* CsvSpec: the text of the file
  cRes,     \* CsvSpec: what was computed from it
  xlsx,     \* whether window.XLSX, the handle of the spreadsheet library, is there
  exps,     \* the invocations of exportToXLSX, by slot
  downloads \* the downloads initiated so far: file name and rows of each

appVars == <<API, text, owner, rows, loading, inv, stale>>
normVars == <<nHeap0, nHeap, nRows, nOwner, nRes>>
csvVars == <<cText, cRes>>
expVars == <<xlsx, exps, downloads>>
vars ==
  <<API, text, owner, rows, loading, inv, stale, nHeap0, nHeap, nRows, nOwner,
    nRes, cText, cRes, xlsx, exps, downloads>>

(* --------------------- the normalizer on its inputs -------------------- *)

\* A record with the given optional fields; CVE_ID tells the records of one
\* collection apart.
Rec(id, ai, bd, ds, rl, rs, ow) ==
  [f \in Fields |->
     CASE f = "CVE_ID"            -> id
       [] f = "AI_Brief"          -> ai
       [] f = "Brief_Description" -> bd
       [] f = "Description_Short" -> ds
       [] f = "Remediation_Links" -> rl
       [] f = "Remediation_Steps" -> rs
       [] f = "Owner_Suggested"   -> ow]

CveIds == <<"CVE-2021-44228", "CVE-2023-4863", "CVE-2024-3094", "CVE-2014-0160">>

\* The records the normalizer is run on, for the record at position k: every
\* combination of the brief fields and the owner field being absent, empty or
\* set; records at odd positions carry remediation links, the others
\* remediation steps.
InputRecords(k) ==
  {Rec(CveIds[k], ai, bd, ds,
       IF k % 2 = 1 THEN "https://fix" ELSE UNDEF,
       IF k % 2 = 1 THEN UNDEF ELSE "upgrade", ow) :
     ai \in {UNDEF, "", "x"}, bd \in {UNDEF, "y"}, ds \in {UNDEF, "z"},
     ow \in {UNDEF, "", "sec@x.com"}}

\* The heaps of n input records, the record at address k drawn from InputRecords(k).
RECURSIVE InputHeaps(_)
InputHeaps(n) ==
  IF n = 0 THEN {<<>>}
  ELSE {Append(h, r) : h \in InputHeaps(n - 1), r \in InputRecords(n)}

\* The values of the default-owner field.
Owners == {"", "team@x.com"}

NotRun == [state |-> "pending", ver |-> 0, v |-> <<>>]

\* Nothing has been computed from a CSV text.
CsvNotRun == [op |-> "none", v |-> <<>>]

CsvIdle ==
  /\ cText = <<>>
  /\ cRes = CsvNotRun

ExpSlots == 1..MaxExp

\* One invocation of exportToXLSX.  pc: "load" while it awaits the script;
\* rows: its first argument; fetched: the script elements it has appended;
\* built: the workbooks it has built; dl: the downloads it has initiated; out:
\* how it went.
IdleExport ==
  [pc |-> "idle", rows |-> <<>>, fetched |-> 0, built |-> 0, dl |-> 0, out |-> ""]

\* The page as loaded: no library handle, no export, no download.
ExpIdle ==
  /\ xlsx = FALSE
  /\ exps = [e \in ExpSlots |-> IdleExport]
  /\ downloads = <<>>

AppIdle ==
  /\ API = TRUE
  /\ text = <<>>
  /\ owner = ""
  /\ rows = <<>>
  /\ loading = FALSE
  /\ inv = <<>>
  /\ stale = {}

NormInit ==
  /\ AppIdle
  /\ CsvIdle
  /\ ExpIdle
  /\ nOwner \in Owners
  /\ \/ /\ nRows \in {NonArray("undefined"), NonArray("null")}
        /\ nHeap0 = <<>>
     \/ \E n \in 0..MaxRows :
          /\ nRows = ArrayOf([k \in 1..n |-> k])
          /\ nHeap0 \in InputHeaps(n)
  /\ nHeap = nHeap0
  /\ nRes = NotRun

\* One call normalizeRows(nRows, nOwner) of the build `ver`.
NormCall(ver) ==
  /\ nRes.state = "pending"
  /\ LET r == IF ver = 1 THEN normalizeRowsV1(nHeap, nRows, nOwner)
                         ELSE normalizeRows(nHeap, nRows, nOwner)
     IN  /\ nRes' = [state |-> IF r.threw THEN "threw" ELSE "returned",
                     ver |-> ver, v |-> r.v]
         /\ nHeap' = r.heap
  /\ UNCHANGED <<nHeap0, nRows, nOwner>>
  /\ UNCHANGED <<appVars, csvVars, expVars>>

NormalizeLater == NormCall(2)

NormalizeEarlier == NormCall(1)

NormNext == NormalizeLater \/ NormalizeEarlier

NormSpec == NormInit /\ [][NormNext]_vars

(* ------------------------------ CSV input ----------------------------- *)

\* Index of the last header equal to h: forEach assigns obj[h] once per
\* position, so the last position holding h decides.
RECURSIVE LastIndex(_, _, _)
LastIndex(s, c, i) ==
  IF i = 0 THEN 0
  ELSE IF s[i] = c THEN i
  ELSE LastIndex(s, c, i - 1)

\* The object with a repeated header name taken to the cell at its first
\* position instead of its last.
CsvObject_FirstHeader(headers, cells) ==
  [h \in Range(headers) |->
     LET i == FirstIndex(headers, h, 1)
     IN  IF i <= Len(cells) THEN cells[i] ELSE <<>>]

\* The object parseCSV builds for one line: headers.forEach((h, i) => obj[h] = cells[i] ?? "").
CsvObject(headers, cells) ==
  [h \in Range(headers) |->
     LET i == LastIndex(headers, h, Len(headers))
     IN  IF i <= Len(cells) THEN cells[i] ELSE <<>>]

\* parseCSV(content), lines 446-456.  split never returns an empty array, so
\* the early return of line 448 is never taken.
parseCSV(content) ==
  LET lines   == SplitLines(Trim(content))
      headers == MapTrim(SplitComma(lines[1]))
  IN  [k \in 1..(Len(lines) - 1) |->
         CsvObject(headers, MapTrim(SplitComma(lines[k + 1])))]

\* (r.CVE_ID || "").trim()
CveIdOf(r) == IF <<"CVE_ID">> \in DOMAIN r THEN Trim(r[<<"CVE_ID">>]) ELSE <<>>

(* ----------------------------- the handlers --------------------------- *)

\* enrich, lines 542-545: the identifiers of the pasted text.
EnrichIds(t) == FilterNonEmpty(MapTrim(SplitLines(t)))

\* onUploadCSV, lines 584-585: the identifiers of the uploaded file.
UploadIds(txt) ==
  LET parsed == parseCSV(txt)
  IN  Dedup(FilterNonEmpty([k \in 1..Len(parsed) |-> CveIdOf(parsed[k])]))

\* The validation without the check of the base URL.
Validate_NoApiCheck(cves, api) ==
  IF cves = <<>> THEN "empty" ELSE "send"

\* The two checks before the request, lines 547-554 and 587-594.
Validate(cves, api) ==
  IF cves = <<>> THEN "empty"
  ELSE IF ~api THEN "noapi"
  ELSE "send"

\* One request per identifier instead of one batch.
IssuedRequests_Chunked(cves) == [k \in 1..Len(cves) |-> <<cves[k]>>]

\* The bodies of the requests one submission issues, lines 556-560 and
\* 596-600: one fetch, its body { cves }.
IssuedRequests(cves) == <<cves>>

\* setRows appending to the displayed set instead of replacing it.
Displayed_Appended(old, enriched) == old \o enriched

\* setRows(enriched), lines 570 and 609: the new value of the rows state.
Displayed(old, enriched) == enriched

\* What the response's body decodes to.  json is "invalid" (res.json() rejects),
\* "null" or "object"; rows is the object's rows property: absent, null, a
\* string, or an array whose elements are 0 (null) or the number of a record.
BodyOf(json, r) == [json |-> json, rows |-> r]

CveA == "CVE-2021-44228"
CveB == "CVE-2023-4863"
CveC == "CVE-2024-3094"

\* The records a response is made of.
ResponseRecords ==
  << Rec(CveA, "x", "y", UNDEF, "https://fix", UNDEF, UNDEF),
     Rec(CveB, UNDEF, UNDEF, "z", UNDEF, "upgrade", "sec@x.com") >>

\* The bodies a response with a success status may carry: not JSON, null, {},
\* { rows: null }, { rows: "..." }, and { rows: [...] } with no element, two
\* records, and a record followed by a null element.
Bodies ==
  {BodyOf("invalid", NonArray("undefined")), BodyOf("null", NonArray("undefined"))}
  \cup {BodyOf("object", NonArray(t)) : t \in {"undefined", "null", "string"}}
  \cup {BodyOf("object", ArrayOf(v)) : v \in {<<>>, <<2, 1>>, <<1, 0>>}}

\* The shape of a decoded body, as far as the handlers tell bodies apart.
BodyShape(body) ==
  IF body.json # "object" THEN body.json
  ELSE IF body.rows.t # "array" THEN body.rows.t
  ELSE IF 0 \in Range(body.rows.v) THEN "nullrecord"
  ELSE "records"

\* The objects JSON decoding creates for the array v, and the array of their
\* addresses (0 for a null element, whose slot of the heap is never read).
ParsedHeap(v) ==
  [k \in 1..Len(v) |-> ResponseRecords[IF v[k] = 0 THEN 1 ELSE v[k]]]
ParsedRows(r) ==
  IF r.t = "array"
  THEN ArrayOf([k \in 1..Len(r.v) |-> IF r.v[k] = 0 THEN 0 ELSE k])
  ELSE r

\* Lines 567-569 and 607-608: data.rows of the decoded body, normalized with
\* the owner the handler closed over.  threw: res.json() rejected, data is null
\* (data.rows throws), or normalizeRows threw.
Enriched(body, own) ==
  IF body.json # "object" THEN [threw |-> TRUE, v |-> <<>>]
  ELSE LET r == normalizeRows(ParsedHeap(body.rows.v), ParsedRows(body.rows), own)
       IN  [threw |-> r.threw, v |-> [k \in 1..Len(r.v) |-> r.heap[r.v[k]]]]

\* The contents of the textarea: line 531's initial value, nothing, blank
\* lines only, and the same identifier twice with a CRLF line end, a blank
\* line and padding.
InitialText == <<CveA, "\n", CveB, "\n", CveC>>
Texts ==
  { InitialText,
    <<>>,
    <<" ", "\n", "\t">>,
    <<CveA, "\r", "\n", CveA, "\n", "\n", " ", CveB, " ">> }

\* The contents of the files chosen for upload: empty, without the CVE_ID
\* column, with blank CVE_ID cells only, and with repeated, padded and missing
\* cells.
Files ==
  { <<>>,
    <<"Product", "\n", CveA>>,
    <<"CVE_ID", ",", "Product", "\n", " ", ",", "log4j", "\n", ",">>,
    <<"CVE_ID", ",", "Product", "\n", CveA, ",", "log4j", "\n",
      " ", CveA, " ", "\n", "\n", CveB, "\n">> }

Slots == 1..MaxInv

\* One invocation of a handler.  kind: which handler; pc: the await it is
\* suspended at; file, owner: what it closed over; reqs: the bodies of its
\* requests that await their response; sent: how many times it has called
\* fetch; alerts, msg: the alerts it has shown and the last one's text; out: how
\* it went; data: the shape of the body it decoded.
IdleSlot ==
  [kind |-> "none", pc |-> "idle", file |-> <<>>, owner |-> "",
   reqs |-> <<>>, sent |-> 0, alerts |-> 0, msg |-> "", out |-> "", data |-> "none"]

\* Invocations take the slots in order.
NextSlot(i) ==
  /\ inv[i].pc = "idle"
  /\ \A j \in Slots : j < i => inv[j].pc # "idle"

Init ==
  /\ API \in BOOLEAN
  /\ text = InitialText
  /\ owner = ""
  /\ rows = <<>>
  /\ loading = FALSE
  /\ inv = [i \in Slots |-> IdleSlot]
  /\ stale = {}
  /\ nHeap0 = <<>>
  /\ nHeap = <<>>
  /\ nRows = ArrayOf(<<>>)
  /\ nOwner = ""
  /\ nRes = NotRun
  /\ CsvIdle
  /\ ExpIdle

\* The invocations whose request is out: fetch called, handler not yet returned.
RequestOut(s) == s.pc \in {"fetch", "text", "json"}

\* stale after a step of a handler: an invocation that has returned leaves it.
StaleKept == stale' = {i \in stale : RequestOut(inv'[i])}

\* The handler has returned: what it closed over is dropped; the number of
\* its requests, the alerts it showed and the way it ended stay on record.
Returned(s, out) ==
  [s EXCEPT !.pc = "done", !.out = out, !.file = <<>>, !.owner = "", !.reqs = <<>>]

\* alert(msg) by the invocation of slot s, then its return.
Alerted(s, out, msg) ==
  [Returned(s, out) EXCEPT !.msg = msg, !.alerts = @ + 1]

\* finally without setLoading(false): the flag stays as it is.
Finally_Keeps(kind, l) == l

\* finally: enrich clears the loading flag (line 575), onUploadCSV only resets
\* the file input (line 614).
Finally(kind, l) == IF kind = "enrich" THEN FALSE ELSE l

\* The catch block clearing the displayed set.
Fail_ClearsRows(i, out, msg) ==
  /\ inv' = [inv EXCEPT ![i] = Alerted(inv[i], out, msg)]
  /\ loading' = Finally(inv[i].kind, loading)
  /\ rows' = <<>>
  /\ UNCHANGED <<API, text, owner>>

\* catch and finally, lines 571-576 and 610-615: log, one alert, no setRows.
Fail(i, out, msg) ==
  /\ inv' = [inv EXCEPT ![i] = Alerted(inv[i], out, msg)]
  /\ loading' = Finally(inv[i].kind, loading)
  /\ UNCHANGED <<API, text, owner, rows>>

\* The synchronous part of a handler once it has its identifiers: the two
\* checks, then the fetch.  s is the invocation's slot so far.
Submit(i, s, cves) ==
  LET v == Validate(cves, API) IN
  /\ inv' = [inv EXCEPT ![i] =
       IF v = "empty"
       THEN Alerted(s, "empty", IF s.kind = "enrich" THEN "paste a CVE" ELSE "no CVE_ID values")
       ELSE IF v = "noapi"
       THEN Alerted(s, "noapi", "VITE_API_URL is not set")
       ELSE [s EXCEPT !.pc = "fetch",
                      !.reqs = @ \o IssuedRequests(cves),
                      !.sent = @ + Len(IssuedRequests(cves))]]
  /\ loading' = IF s.kind # "enrich" THEN loading ELSE (v = "send")
  /\ UNCHANGED <<API, text, owner, rows>>

\* A click on "Enrich CVEs" (disabled while loading, line 659): enrich up to
\* its first await, lines 539-560.
Enrich(i) ==
  /\ NextSlot(i)
  /\ ~loading
  /\ Submit(i, [inv[i] EXCEPT !.kind = "enrich", !.owner = owner], EnrichIds(text))
  /\ StaleKept
  /\ UNCHANGED <<normVars, csvVars, expVars>>

\* A file chosen in the upload input: onUploadCSV up to await file.text(),
\* lines 579-583.
Upload(i) ==
  /\ NextSlot(i)
  /\ \E f \in Files :
       inv' = [inv EXCEPT ![i] =
                 [@ EXCEPT !.kind = "upload", !.owner = owner, !.pc = "file", !.file = f]]
  /\ UNCHANGED <<API, text, owner, rows, loading>>
  /\ StaleKept
  /\ UNCHANGED <<normVars, csvVars, expVars>>

\* The file dialog closed without a file: onUploadCSV returns at line 581.
UploadNoFile(i) ==
  /\ NextSlot(i)
  /\ inv' = [inv EXCEPT ![i] = Returned([@ EXCEPT !.kind = "upload"], "nofile")]
  /\ UNCHANGED <<API, text, owner, rows, loading>>
  /\ StaleKept
  /\ UNCHANGED <<normVars, csvVars, expVars>>

\* file.text() settles: lines 583-600, or the catch block when it rejects.
FileSettle(i) ==
  /\ inv[i].pc = "file"
  /\ \/ Submit(i, [inv[i] EXCEPT !.file = <<>>], UploadIds(inv[i].file))
     \/ Fail(i, "filefail", "error")
  /\ StaleKept
  /\ UNCHANGED <<normVars, csvVars, expVars>>

\* fetch settles: rejected (network failure), or a response whose ok is false
\* (line 562) or true (line 567).
FetchSettle(i) ==
  /\ inv[i].pc = "fetch"
  /\ \/ Fail(i, "neterr", "error")
     \/ /\ inv' = [inv EXCEPT ![i].pc = "text", ![i].out = "http", ![i].reqs = <<>>]
        /\ UNCHANGED <<API, text, owner, rows, loading>>
     \/ /\ inv' = [inv EXCEPT ![i].pc = "json", ![i].reqs = <<>>]
        /\ UNCHANGED <<API, text, owner, rows, loading>>
  /\ StaleKept
  /\ UNCHANGED <<normVars, csvVars, expVars>>

\* res.text() settles, lines 563-564: its text, or "" when it rejects; then the
\* Error is thrown and caught.
TextSettle(i) ==
  /\ inv[i].pc = "text"
  /\ \E t \in {"body", ""} :
       Fail(i, "http", IF t # "" THEN "Backend error: body" ELSE "Backend error: statusText")
  /\ StaleKept
  /\ UNCHANGED <<normVars, csvVars, expVars>>

\* The owner field as it is when the response is handled.
ClosedOverOwner_Current(s, current) == current

\* The owner normalizeRows is called with, lines 569 and 608: the one of the
\* render the handler was created in, which the invocation s closed over.
ClosedOverOwner(s, current) == s.owner

\* res.json() settles, lines 567-570 and 607-609.
JsonSettle(i) ==
  /\ inv[i].pc = "json"
  /\ \E body \in Bodies :
       LET e == Enriched(body, ClosedOverOwner(inv[i], owner)) IN
       IF e.threw
       THEN Fail(i, "threw", "error")
       ELSE /\ rows' = Displayed(rows, e.v)
            /\ inv' = [inv EXCEPT ![i] =
                         Returned([inv[i] EXCEPT !.data = BodyShape(body)], "ok")]
            /\ loading' = Finally(inv[i].kind, loading)
            /\ UNCHANGED <<API, text, owner>>
  /\ StaleKept
  /\ UNCHANGED <<normVars, csvVars, expVars>>

\* The Clear button, lines 664-667.
ClearRows ==
  /\ rows' = <<>>
  /\ text' = <<>>
  /\ UNCHANGED <<API, owner, loading, inv>>
  /\ UNCHANGED <<normVars, csvVars, expVars>>

Clear ==
  /\ ClearRows
  /\ UNCHANGED stale

\* The Clear button, with the invocations whose request is out at the click
\* put on record.
ClearNoted ==
  /\ ClearRows
  /\ stale' = {i \in Slots : RequestOut(inv[i])}

\* Typing in the textarea, line 653.
SetText ==
  /\ \E t \in Texts : t # text /\ text' = t
  /\ UNCHANGED <<API, owner, rows, loading, inv>>
  /\ StaleKept
  /\ UNCHANGED <<normVars, csvVars, expVars>>

\* Typing in the default-owner field, line 657.
SetOwner ==
  /\ \E o \in Owners : o # owner /\ owner' = o
  /\ UNCHANGED <<API, text, rows, loading, inv>>
  /\ StaleKept
  /\ UNCHANGED <<normVars, csvVars, expVars>>

Next ==
  \/ \E i \in Slots : Enrich(i)
  \/ \E i \in Slots : Upload(i)
  \/ \E i \in Slots : UploadNoFile(i)
  \/ \E i \in Slots : FileSettle(i)
  \/ \E i \in Slots : FetchSettle(i)
  \/ \E i \in Slots : TextSettle(i)
  \/ \E i \in Slots : JsonSettle(i)
  \/ Clear
  \/ SetText
  \/ SetOwner

Spec == Init /\ [][Next]_vars

(* ------------------ the page with Clear put on record ----------------- *)

\* The page of a build with the base URL configured.
RaceInit == Init /\ API

RaceNext ==
  \/ \E i \in Slots : Enrich(i)
  \/ \E i \in Slots : Upload(i)
  \/ \E i \in Slots : UploadNoFile(i)
  \/ \E i \in Slots : FileSettle(i)
  \/ \E i \in Slots : FetchSettle(i)
  \/ \E i \in Slots : TextSettle(i)
  \/ \E i \in Slots : JsonSettle(i)
  \/ ClearNoted
  \/ SetText
  \/ SetOwner

RaceSpec == RaceInit /\ [][RaceNext]_vars

(* ------------------------ the CSV path on its inputs ------------------- *)

\* The symbols CSV texts are made of: two tokens, one of them the name of the
\* identifier column, the comma, the space, and the two characters of a line
\* end ("\r" on its own is white space to trim).
CsvSymbols == {"CVE_ID", "a", ",", " ", "\n", "\r"}

\* The texts the CSV path is run on: every text of up to MaxCsv symbols, and
\* the files of the upload handler.
CsvTexts == UNION {[1..n -> CsvSymbols] : n \in 0..MaxCsv} \cup Files

NormIdle ==
  /\ nHeap0 = <<>>
  /\ nHeap = <<>>
  /\ nRows = ArrayOf(<<>>)
  /\ nOwner = ""
  /\ nRes = NotRun

CsvInit ==
  /\ AppIdle
  /\ NormIdle
  /\ ExpIdle
  /\ cText \in CsvTexts
  /\ cRes = CsvNotRun

\* One call parseCSV(cText).
ParseCsv ==
  /\ cRes.op = "none"
  /\ cRes' = [op |-> "parse", v |-> parseCSV(cText)]
  /\ UNCHANGED <<cText, appVars, normVars, expVars>>

\* Lines 584-585 of onUploadCSV on the text cText of the file.
ExtractIds ==
  /\ cRes.op = "none"
  /\ cRes' = [op |-> "ids", v |-> UploadIds(cText)]
  /\ UNCHANGED <<cText, appVars, normVars, expVars>>

CsvNext == ParseCsv \/ ExtractIds

CsvSpec == CsvInit /\ [][CsvNext]_vars

(* ------------------------------- export ------------------------------- *)

\* The result sets the page can display: none, and the normalized records of
\* a response under either value of the default-owner field.
DisplayedSets ==
  {<<>>} \cup {Enriched(BodyOf("object", ArrayOf(<<2, 1>>)), o).v : o \in Owners}

\* The library fetched at every export, whether its handle is there or not.
LibraryMissing_Always(handle) == TRUE

\* Line 460: !window.XLSX.
LibraryMissing(handle) == ~handle

\* The default of exportToXLSX's second parameter, line 459.
ExportFilename == "enriched_cves.xlsx"

\* Lines 471-479 in the record of invocation x: one workbook built, one
\* download initiated.
Downloaded(x) ==
  [x EXCEPT !.pc = "done", !.out = "downloaded", !.built = @ + 1, !.dl = @ + 1]

NextExport(e) ==
  /\ exps[e].pc = "idle"
  /\ \A j \in ExpSlots : j < e => exps[j].pc # "idle"

ExpInit ==
  /\ API = TRUE
  /\ text = InitialText
  /\ owner = ""
  /\ rows \in DisplayedSets
  /\ loading = FALSE
  /\ inv = [i \in Slots |-> IdleSlot]
  /\ stale = {}
  /\ NormIdle
  /\ CsvIdle
  /\ ExpIdle

\* A click on "Export Excel", line 635: exportToXLSX(rows) up to its await, or
\* to its end when the library's handle is there.
ExportClick(e) ==
  /\ NextExport(e)
  /\ IF LibraryMissing(xlsx)
     THEN /\ exps' = [exps EXCEPT ![e] =
                       [@ EXCEPT !.pc = "load", !.rows = rows, !.fetched = @ + 1]]
          /\ UNCHANGED downloads
     ELSE /\ exps' = [exps EXCEPT ![e] = Downloaded([@ EXCEPT !.rows = rows])]
          /\ downloads' = Append(downloads, [name |-> ExportFilename, rows |-> rows])
  /\ UNCHANGED <<xlsx, appVars, normVars, csvVars>>

\* The script element's load event: the script has run and set window.XLSX;
\* the invocation goes on with the rows it was called with, lines 470-479.
LoadOk(e) ==
  /\ exps[e].pc = "load"
  /\ xlsx' = TRUE
  /\ exps' = [exps EXCEPT ![e] = Downloaded(@)]
  /\ downloads' = Append(downloads, [name |-> ExportFilename, rows |-> exps[e].rows])
  /\ UNCHANGED <<appVars, normVars, csvVars>>

\* The script element's error event: the promise of line 461 rejects and with
\* it the one exportToXLSX returned; nothing handles the rejection.
LoadFail(e) ==
  /\ exps[e].pc = "load"
  /\ exps' = [exps EXCEPT ![e] = [@ EXCEPT !.pc = "done", !.out = "aborted"]]
  /\ UNCHANGED <<xlsx, downloads, appVars, normVars, csvVars>>

ExpNext ==
  \/ \E e \in ExpSlots : ExportClick(e)
  \/ \E e \in ExpSlots : LoadOk(e)
  \/ \E e \in ExpSlots : LoadFail(e)
  \/ Clear

ExportSpec == ExpInit /\ [][ExpNext]_vars

(* ------------------------ claims on the handlers ---------------------- *)

\* The step is the synchronous part of invocation i that ends in the request
\* or in a validation message: the click for enrich, the settling of
\* file.text() for onUploadCSV.  ids are the identifiers it works on.
SubmitsEnrich(i) == inv[i].pc = "idle" /\ inv'[i].kind = "enrich"
SubmitsUpload(i) ==
  inv[i].pc = "file" /\ inv'[i].pc # "file" /\ inv'[i].out # "filefail"

NoDuplicates(s) == \A x, y \in 1..Len(s) : x # y => s[x] # s[y]

\* C1. The identifier list in the body of every request in flight is non-empty
\* and holds no identifier twice.
C1_RequestIdsDistinct ==
  \A i \in Slots : \A k \in 1..Len(inv[i].reqs) :
    /\ inv[i].reqs[k] # <<>>
    /\ NoDuplicates(inv[i].reqs[k])

\* What a failed validation of invocation i, working on the identifiers ids,
\* amounts to in one step.
C2_FailedValidation(i, ids) ==
  (ids = <<>> \/ ~API) =>
    /\ inv'[i].pc = "done"
    /\ inv'[i].reqs = <<>>
    /\ inv'[i].sent = 0
    /\ inv'[i].alerts = inv[i].alerts + 1
    /\ inv'[i].alerts = 1
    /\ rows' = rows

\* C2. A submission with no surviving identifier, or with the base URL not
\* configured, issues no request, shows exactly one message and leaves the
\* displayed result set as it is; nothing is issued or shown for it later.
C2_ValidationBlocks ==
  /\ [](\A i \in Slots :
          inv[i].out \in {"empty", "noapi"} =>
            inv[i].pc = "done" /\ inv[i].sent = 0 /\ inv[i].alerts = 1)
  /\ [][\A i \in Slots :
          /\ SubmitsEnrich(i) => C2_FailedValidation(i, EnrichIds(text))
          /\ SubmitsUpload(i) => C2_FailedValidation(i, UploadIds(inv[i].file))]_vars

\* C2's case: with a result set displayed, a submission without identifiers has
\* been turned down with its one message.
C2_Witness ==
  /\ rows # <<>>
  /\ \E i \in Slots :
       /\ inv[i].out = "empty"
       /\ inv[i].alerts = 1
       /\ inv[i].sent = 0

\* C3. A response with a non-2xx status shows exactly one message, once its
\* body text was read or found unreadable, and no step of its handling changes
\* the displayed result set.
C3_HttpErrorKeepsRows ==
  /\ [](\A i \in Slots :
          inv[i].out = "http" =>
            /\ inv[i].pc \in {"text", "done"}
            /\ inv[i].alerts = (IF inv[i].pc = "done" THEN 1 ELSE 0))
  /\ [][\A i \in Slots :
          (inv'[i] # inv[i] /\ inv'[i].out = "http") => rows' = rows]_vars

\* C3's case: with a result set displayed, a non-2xx response whose body could
\* not be read has been handled.
C3_Witness ==
  /\ rows # <<>>
  /\ \E i \in Slots :
       /\ inv[i].pc = "done"
       /\ inv[i].out = "http"
       /\ inv[i].msg = "Backend error: statusText"
       /\ inv[i].alerts = 1

\* C4. When the request fails, or a response with a success status carries a
\* body that does not decode to { rows: [record, ...] }, the handler ends with
\* exactly one message shown and the displayed result set as it was.
C4_FailureCaught ==
  [][\A i \in Slots :
       (\/ inv[i].pc = "fetch" /\ inv'[i].out = "neterr"
        \/ inv[i].pc = "json" /\ inv'[i].pc = "done" /\ inv'[i].data # "records") =>
         /\ inv'[i].alerts = inv[i].alerts + 1
         /\ inv'[i].alerts = 1
         /\ rows' = rows]_vars

\* An invocation has called fetch at most once, exactly once if it got as far
\* as a request, and has a request in flight exactly while it awaits fetch.
C5_AtMostOne ==
  \A i \in Slots :
    /\ inv[i].sent <= 1
    /\ Len(inv[i].reqs) = (IF inv[i].pc = "fetch" THEN 1 ELSE 0)
    /\ (inv[i].pc \in {"fetch", "text", "json"}
        \/ inv[i].out \in {"neterr", "http", "threw", "ok"}) => inv[i].sent = 1

\* C5. A submission that passes validation calls fetch exactly once, the body
\* of the request all the identifiers of the submission; an invocation never
\* calls fetch a second time, whatever becomes of the first request.
C5_OneRequest ==
  /\ C5_AtMostOne
  /\ [][/\ C5_AtMostOne'
        /\ \A i \in Slots :
             /\ (SubmitsEnrich(i) /\ EnrichIds(text) # <<>> /\ API) =>
                  inv'[i].reqs = <<EnrichIds(text)>>
             /\ (SubmitsUpload(i) /\ UploadIds(inv[i].file) # <<>> /\ API) =>
                  inv'[i].reqs = <<UploadIds(inv[i].file)>>
             /\ inv[i].sent > 0 => inv'[i].sent = inv[i].sent]_vars

\* C5's case: a request failed and its handler has returned without another
\* request; a new submission of three identifiers is in flight as one request.
C5_Witness ==
  \E i, j \in Slots :
    /\ inv[i].pc = "done"
    /\ inv[i].out = "neterr"
    /\ inv[i].sent = 1
    /\ inv[j].pc = "fetch"
    /\ inv[j].reqs = << << <<CveA>>, <<CveB>>, <<CveC>> >> >>

\* C6. The displayed result set changes only when Clear empties it (with the
\* textarea) or when a handler ends successfully, and then it is exactly the
\* normalized records of that handler's response.
C6_RowsChangeOnlyBy ==
  [][rows' # rows =>
       \/ rows' = <<>> /\ text' = <<>> /\ inv' = inv
       \/ \E i \in Slots :
            /\ inv[i].pc = "json"
            /\ inv'[i].pc = "done"
            /\ inv'[i].out = "ok"
            /\ \E body \in Bodies :
                 /\ BodyShape(body) = inv'[i].data
                 /\ ~Enriched(body, inv[i].owner).threw
                 /\ rows' = Enriched(body, inv[i].owner).v]_vars

\* C6's case: two handlers have ended successfully, each on a body of records,
\* and the displayed set is the normalized two-record response.
C6_Witness ==
  /\ rows = Enriched(BodyOf("object", ArrayOf(<<2, 1>>)), "team@x.com").v
  /\ Len(rows) = 2
  /\ \A i \in 1..2 : inv[i].out = "ok" /\ inv[i].data = "records"

\* C14. Whenever a request of enrich or of onUploadCSV awaits its response,
\* the loading flag is set.
C14_LoadingWhileAwaiting ==
  \A i \in Slots : inv[i].pc = "fetch" => loading

\* The step is the successful end of invocation i: its response decoded, its
\* records handed to setRows.
Succeeds(i) == inv[i].pc = "json" /\ inv'[i].out = "ok"

\* C15. Once a Clear was clicked while the request of a submission was out, or
\* a submission made after it (the earlier one a click on Enrich, the later one
\* any) has ended successfully, the response to the earlier submission does
\* not change the displayed result set.
C15_LastSubmittedWins ==
  [][\A i \in Slots :
       (/\ Succeeds(i)
        /\ \/ i \in stale
           \/ \E j \in Slots :
                i < j /\ inv[i].kind = "enrich" /\ inv[j].out = "ok") =>
         rows' = rows]_vars

\* C16. A step that ends an invocation of enrich, on whichever path, leaves
\* the loading flag cleared; when no invocation of enrich is in progress the
\* flag is cleared and the Enrich button enabled.
C16_EnrichClearsLoading ==
  /\ []((\A i \in Slots : inv[i].kind = "enrich" => inv[i].pc = "done") => ~loading)
  /\ [][\A i \in Slots :
          (inv'[i].kind = "enrich" /\ inv[i].pc # "done" /\ inv'[i].pc = "done") =>
            loading' = FALSE]_vars

\* C16's case: one invocation of enrich has ended on a non-2xx response and
\* another on a body that made it throw, and the loading flag is cleared.
C16_Witness ==
  /\ ~loading
  /\ \E i, j \in Slots :
       /\ inv[i].kind = "enrich" /\ inv[i].pc = "done" /\ inv[i].out = "http"
       /\ inv[j].kind = "enrich" /\ inv[j].pc = "done" /\ inv[j].out = "threw"

\* C17. An invocation holds the value the owner field had when it was
\* triggered and holds it until it returns; the records it displays are those
\* of its response normalized with that value; a change of the owner field
\* leaves the displayed records as they are.
C17_OwnerAtTrigger ==
  [][/\ owner' # owner => rows' = rows
     /\ \A i \in Slots :
          /\ (inv[i].pc = "idle" /\ inv'[i].pc \notin {"idle", "done"}) =>
               inv'[i].owner = owner
          /\ (inv[i].pc \notin {"idle", "done"} /\ inv'[i].pc # "done") =>
               inv'[i].owner = inv[i].owner
          /\ Succeeds(i) =>
               \E body \in Bodies :
                 /\ BodyShape(body) = inv'[i].data
                 /\ rows' = Enriched(body, inv[i].owner).v]_vars

\* C17's case: the displayed records carry the owner "team@x.com" of their
\* submission, the owner field has been emptied since, and a submission made
\* under "team@x.com" is having its response read.
C17_Witness ==
  /\ owner = ""
  /\ Len(rows) = 2
  /\ \A k \in 1..2 : rows[k].Owner_Suggested = "team@x.com"
  /\ \E i \in Slots : inv[i].pc = "json" /\ inv[i].owner = "team@x.com"

(* ----------------------- claims on the normalizer ---------------------- *)

\* The record the call was given at position i, and the record it returned there.
NormIn(i) == nHeap0[nRows.v[i]]
NormOut(i) == nHeap[nRes.v[i]]

NormReturned == nRes.state = "returned"

\* C7. For every record the later build's normalizer sets Description_Short to
\* the first non-empty of AI_Brief, Brief_Description and the record's own
\* Description_Short, in that order.
C7_BriefPrecedence ==
  (NormReturned /\ nRes.ver = 2) =>
    \A i \in 1..Len(nRes.v) :
      NormOut(i).Description_Short =
        Or(NormIn(i).AI_Brief,
           Or(NormIn(i).Brief_Description, Or(NormIn(i).Description_Short, "")))

\* C8. For every record the normalizer sets Owner_Suggested to the default owner
\* when the default is non-empty, else to the record's own owner when that is
\* non-empty, else to the empty string.
C8_OwnerOverlay ==
  NormReturned =>
    \A i \in 1..Len(nRes.v) :
      NormOut(i).Owner_Suggested =
        IF nOwner # "" THEN nOwner
        ELSE IF NormIn(i).Owner_Suggested \notin {UNDEF, ""}
             THEN NormIn(i).Owner_Suggested
             ELSE ""

\* C8's cases: default "team@x.com" given to a record without an owner field
\* and to a record that carries its own owner.
C8_Witness ==
  /\ NormReturned
  /\ nOwner = "team@x.com"
  /\ Len(nRes.v) = 2
  /\ NormIn(1).Owner_Suggested = UNDEF
  /\ NormOut(1).Owner_Suggested = "team@x.com"
  /\ NormIn(2).Owner_Suggested = "sec@x.com"
  /\ NormOut(2).Owner_Suggested = "team@x.com"

\* C9 as stated. A record that carries a non-empty owner keeps that owner after
\* normalization.
C9_OwnerKept ==
  NormReturned =>
    \A i \in 1..Len(nRes.v) :
      NormIn(i).Owner_Suggested \notin {UNDEF, ""} =>
        NormOut(i).Owner_Suggested = NormIn(i).Owner_Suggested

\* C9 as amended. A record lacking an owner gets the default owner; a record
\* that carries a non-empty owner keeps it exactly when the default owner is
\* empty, and gets the default owner in its place otherwise.
C9_OwnerKeptUnlessDefault ==
  NormReturned =>
    \A i \in 1..Len(nRes.v) :
      /\ NormIn(i).Owner_Suggested \in {UNDEF, ""} =>
           NormOut(i).Owner_Suggested = nOwner
      /\ (NormIn(i).Owner_Suggested \notin {UNDEF, ""} /\ nOwner = "") =>
           NormOut(i).Owner_Suggested = NormIn(i).Owner_Suggested
      /\ (NormIn(i).Owner_Suggested \notin {UNDEF, ""} /\ nOwner # "") =>
           /\ NormOut(i).Owner_Suggested = nOwner
           /\ NormOut(i).Owner_Suggested # NormIn(i).Owner_Suggested

\* C9's case: a record with its own owner, normalized under a non-empty default.
C9_Witness ==
  /\ NormReturned
  /\ nOwner = "team@x.com"
  /\ \E i \in 1..Len(nRes.v) :
       /\ NormIn(i).Owner_Suggested = "sec@x.com"
       /\ NormOut(i).Owner_Suggested = "team@x.com"

\* C10. normalizeRows never throws on a collection of records or on an absent or
\* null collection (for which it returns the empty collection); it returns as
\* many records as it was given, in the same order, each of them a new object,
\* and every object it was given is afterwards what it was before.
C10_TotalNonMutating ==
  /\ nRes.state # "threw"
  /\ NormReturned =>
       /\ Len(nRes.v) = (IF nRows.t = "array" THEN Len(nRows.v) ELSE 0)
       /\ \A i \in 1..Len(nRes.v) :
            /\ nRes.v[i] \notin 1..Len(nHeap0)
            /\ NormOut(i).CVE_ID = NormIn(i).CVE_ID
            /\ \A j \in 1..Len(nRes.v) : i # j => nRes.v[i] # nRes.v[j]
       /\ \A a \in 1..Len(nHeap0) : nHeap[a] = nHeap0[a]

\* C10's case: a call on two records that returned records differing from the
\* ones given.
C10_Witness ==
  /\ NormReturned
  /\ Len(nRes.v) = 2
  /\ NormOut(1) # NormIn(1)
  /\ NormOut(2) # NormIn(2)

(* ------------------------ claims on the CSV path --------------------- *)

RECURSIVE CountOf(_, _)
CountOf(s, c) ==
  IF s = <<>> THEN 0
  ELSE (IF Head(s) = c THEN 1 ELSE 0) + CountOf(Tail(s), c)

\* The lines of a text, the white space around the whole text put aside; the
\* first of them is the header line.
CsvLines(t) == SplitLines(Trim(t))

\* The trimmed names of the header line, and the trimmed cells of line k.
CsvHeaders(t) == MapTrim(SplitComma(CsvLines(t)[1]))
CsvCells(t, k) == MapTrim(SplitComma(CsvLines(t)[k]))

\* The trimmed cell at position p of line k, the empty string when the line
\* has fewer than p cells.
CsvCell(t, k, p) ==
  IF p <= Len(CsvCells(t, k)) THEN CsvCells(t, k)[p] ELSE <<>>

\* parseCSV returned one mapping per line after the header line (one per line
\* break of the text), none for a blank text, each with the header names as its
\* keys.
CsvOnePerLine ==
  /\ Len(cRes.v) = Len(CsvLines(cText)) - 1
  /\ Len(cRes.v) = CountOf(Trim(cText), "\n")
  /\ Trim(cText) = <<>> => cRes.v = <<>>
  /\ \A k \in 1..Len(cRes.v) : DOMAIN cRes.v[k] = Range(CsvHeaders(cText))

\* C11 as stated. parseCSV yields one mapping per line after the header line,
\* none for a blank text, and each mapping takes the header name at every
\* position to the trimmed cell at that position of its line, or to the empty
\* string when the line has no cell there.
C11_ParseCsvByPosition ==
  cRes.op = "parse" =>
    /\ CsvOnePerLine
    /\ \A k \in 1..Len(cRes.v) : \A i \in 1..Len(CsvHeaders(cText)) :
         cRes.v[k][CsvHeaders(cText)[i]] = CsvCell(cText, k + 1, i)

\* C11 as amended. The same, for the last position of every header name: a
\* name that the header line repeats is taken to the cell at its last position.
C11_ParseCsvLastHeader ==
  cRes.op = "parse" =>
    /\ CsvOnePerLine
    /\ \A k \in 1..Len(cRes.v) : \A i \in 1..Len(CsvHeaders(cText)) :
         (\A j \in (i + 1)..Len(CsvHeaders(cText)) :
            CsvHeaders(cText)[j] # CsvHeaders(cText)[i]) =>
           cRes.v[k][CsvHeaders(cText)[i]] = CsvCell(cText, k + 1, i)

\* C11's case: a line of one cell under a header line of two names, ended by
\* CRLF: the second name is taken to the empty string.
C11_Witness ==
  /\ cRes.op = "parse"
  /\ cText = <<"CVE_ID", ",", "a", "\r", "\n", "a">>
  /\ cRes.v = << (<<"CVE_ID">> :> <<"a">>) @@ (<<"a">> :> <<>>) >>

\* C12. When the header line names the CVE_ID column, the identifiers the
\* upload handler extracts are, each once, exactly the non-empty trimmed cells
\* of that column over the lines after the header line (of the last column of
\* that name when the header line repeats it).
C12_ExtractedIds ==
  cRes.op = "ids" =>
    LET p == LastIndex(CsvHeaders(cText), <<"CVE_ID">>, Len(CsvHeaders(cText))) IN
    p > 0 =>
      /\ NoDuplicates(cRes.v)
      /\ Range(cRes.v) =
           {CsvCell(cText, k, p) : k \in 2..Len(CsvLines(cText))} \ {<<>>}

\* C12's case: a file whose CVE_ID column holds an identifier twice, once of
\* them padded, a blank line and a second identifier.
C12_Witness ==
  /\ cRes.op = "ids"
  /\ cText = <<"CVE_ID", ",", "Product", "\n", CveA, ",", "log4j", "\n",
               " ", CveA, " ", "\n", "\n", CveB, "\n">>
  /\ cRes.v = << <<CveA>>, <<CveB>> >>

(* -------------------------- claims on export -------------------------- *)

\* What an export has done at most, and what an aborted one has done.
C13_PerExport ==
  \A e \in ExpSlots :
    /\ exps[e].fetched <= 1 /\ exps[e].built <= 1 /\ exps[e].dl <= 1
    /\ exps[e].out = "aborted" =>
         exps[e].pc = "done" /\ exps[e].fetched = 1 /\ exps[e].built = 0 /\ exps[e].dl = 0
    /\ exps[e].out = "downloaded" => exps[e].pc = "done" /\ exps[e].dl = 1

\* C13. An export fetches the library exactly when its handle is missing at
\* the click.  With the handle there, the click itself initiates one download
\* of the displayed rows under the fixed file name and fetches nothing.  When
\* the fetch fails the export ends: no workbook, no download, no second fetch.
\* No step of an export changes the displayed result set.
C13_Export ==
  /\ C13_PerExport
  /\ [][/\ C13_PerExport'
        /\ \A e \in ExpSlots :
             /\ exps'[e] # exps[e] => rows' = rows
             /\ (exps[e].pc = "idle" /\ exps'[e].pc # "idle") =>
                  IF xlsx
                  THEN /\ exps'[e].fetched = 0
                       /\ exps'[e].out = "downloaded"
                       /\ downloads' =
                            Append(downloads, [name |-> "enriched_cves.xlsx", rows |-> rows])
                  ELSE /\ exps'[e].fetched = 1
                       /\ exps'[e].pc = "load"
                       /\ downloads' = downloads
             /\ (exps[e].pc = "load" /\ exps'[e].out = "aborted") =>
                  /\ downloads' = downloads
                  /\ exps'[e].pc = "done"
                  /\ exps'[e].fetched = 1
                  /\ xlsx' = xlsx
             /\ exps[e].pc = "done" => exps'[e] = exps[e]]_vars

\* C13's case: with records displayed, one export was aborted by a failed
\* fetch, and a later one, the handle there by then, has downloaded the
\* displayed rows without fetching; that is the only download but for the one
\* of the export that loaded the library.
C13_Witness ==
  /\ rows # <<>>
  /\ xlsx
  /\ \E a, b \in ExpSlots :
       /\ exps[a].out = "aborted"
       /\ exps[b].out = "downloaded"
       /\ exps[b].fetched = 0
  /\ Len(downloads) = 2
  /\ downloads[2] = [name |-> "enriched_cves.xlsx", rows |-> rows]

====
